---- MODULE Spec2Model ----
(***************************************************************************)
(* A model of PhloxAR/linescan.py: the LineScan container (a list of       *)
(* samples with image metadata) and its operations.                        *)
(*                                                                         *)
(* The state is one LineScan object `self`, the record `call` of the last  *)
(* method call made on it (its name, its arguments, the receiver and the   *)
(* right operand as they were before the call and the right operand as it  *)
(* is after it) and `ret`, what that call returned or raised.  The         *)
(* library is single threaded: a caller makes one call, then goes on with  *)
(* the receiver (Keep) or with the LineScan the call returned (Adopt).     *)
(*                                                                         *)
(* Python semantics are those of Python 2, which the source is written     *)
(* for (operator.div, __div__, map and zip returning lists).               *)
(***************************************************************************)
EXTENDS Integers, Sequences, FiniteSets, TLC

VARIABLES self, call, ret

vars == <<self, call, ret>>

(***************************************************************************)
(* Bounds of the model.                                                    *)
(***************************************************************************)
\* longest sample list given to the constructor
MaxLen == 3
\* largest degree / size / diameter / window / n argument
MaxArg == 3

\* longest sample list given to a stepwise find_peaks, and longest alternating one
PeakLen == 4
AltLen == 7

\* the sample values given to the constructor
SampleVals == {-2, -1, 0, 2, 255}
\* the sample values of a right operand
OtherVals == {0, 2}

(***************************************************************************)
(* Numbers.  A sample is a record: t is its Python type ("int", "float")   *)
(* or the kind of a non-finite or externally computed float; a finite      *)
(* number has the value n/d in lowest terms, d > 0.  A float is carried    *)
(* by its exact rational value.                                            *)
(***************************************************************************)
Abs(x) == IF x < 0 THEN -x ELSE x

Min2(a, b) == IF a < b THEN a ELSE b

Max2(a, b) == IF a > b THEN a ELSE b

RECURSIVE Gcd(_, _)
Gcd(a, b) == IF b = 0 THEN a ELSE Gcd(b, a % b)

\* Python's floor division of integers, b # 0
FloorDiv(a, b) ==
    IF b > 0 THEN a \div b
    ELSE (-a) \div (-b)

\* int(x) of the rational n/d, d > 0: truncation toward zero
Trunc(n, d) == IF n >= 0 THEN n \div d ELSE -((-n) \div d)

PyInt(n) == [t |-> "int", n |-> n, d |-> 1]

\* the float n/d, d # 0
PyFloat(n, d) ==
    LET s == IF d < 0 THEN -1 ELSE 1
        g == Gcd(Abs(n), Abs(d))
    IN  [t |-> "float", n |-> (s * n) \div g, d |-> (s * d) \div g]

NaN == [t |-> "nan", n |-> 0, d |-> 0]

PosInf == [t |-> "inf", n |-> 1, d |-> 0]

NegInf == [t |-> "inf", n |-> -1, d |-> 0]

\* a float computed by an external numeric routine whose value the model
\* does not evaluate (transcendental weights, Fourier interpolation): kind is
\* the routine, i and k identify the value
Opaque(kind, i, k) == [t |-> kind, n |-> i, d |-> k]

IsFinite(v) == v.t \in {"int", "float"}

IsInt(v) == v.t = "int"

\* numeric comparison of finite numbers
NumLt(a, b) == a.n * b.d < b.n * a.d

NumEq(a, b) == a.n * b.d = b.n * a.d

NumLe(a, b) == a.n * b.d <= b.n * a.d

\* float arithmetic on finite numbers
FAdd(a, b) == PyFloat(a.n * b.d + b.n * a.d, a.d * b.d)

FSub(a, b) == PyFloat(a.n * b.d - b.n * a.d, a.d * b.d)

FMul(a, b) == PyFloat(a.n * b.n, a.d * b.d)

\* b # 0
FDiv(a, b) == PyFloat(a.n * b.d, a.d * b.n)

\* x / y in IEEE arithmetic (numpy): a zero divisor gives inf or nan
NpDiv(a, b) ==
    IF b.n # 0 THEN FDiv(a, b)
    ELSE IF a.n = 0 THEN NaN
    ELSE IF a.n > 0 THEN PosInf ELSE NegInf

Ints(s) == [i \in 1..Len(s) |-> PyInt(s[i])]

(***************************************************************************)
(* Python lists.                                                           *)
(***************************************************************************)
\* a slice bound k of a list of length n, as Python clamps it
NormIdx(k, n) == IF k < 0 THEN Max2(n + k, 0) ELSE Min2(k, n)

\* s[a:b]
PySlice(s, a, b) ==
    LET lo == NormIdx(a, Len(s))
        hi == NormIdx(b, Len(s))
    IN  IF lo >= hi THEN <<>> ELSE SubSeq(s, lo + 1, hi)

\* s[a:]
PySliceFrom(s, a) == PySlice(s, a, Len(s))

\* zip(range(0, n), range(0, n))
ZipRange(n) == [i \in 1..n |-> <<i - 1, i - 1>>]

(***************************************************************************)
(* The LineScan object.                                                    *)
(***************************************************************************)
\* __init__: the list is filled from args, the instance attributes get
\* their defaults, a keyword is stored only if it names one of them
\* (point_loc is a class attribute, not in the instance's __dict__, so a
\* point_loc keyword is dropped, as is any unknown keyword), and point_loc,
\* still None, becomes the identity mapping
LineScan(args, kwargs) ==
    LET kw(key, default) ==
            IF key \in DOMAIN kwargs THEN kwargs[key] ELSE default
    IN  [samples   |-> args,
         image     |-> kw("image", "None"),
         pt1       |-> kw("pt1", "None"),
         pt2       |-> kw("pt2", "None"),
         row       |-> kw("row", "None"),
         col       |-> kw("col", "None"),
         channel   |-> kw("channel", -1),
         point_loc |-> ZipRange(Len(args))]

NoKwargs == [x \in {} |-> "None"]

\* _update: every metadata attribute of obj is copied onto the object
update(this, obj) ==
    [samples   |-> this.samples,
     image     |-> obj.image,
     pt1       |-> obj.pt1,
     pt2       |-> obj.pt2,
     row       |-> obj.row,
     col       |-> obj.col,
     channel   |-> obj.channel,
     point_loc |-> obj.point_loc]

\* the keywords most methods pass to the constructor
StdKwargs(s) ==
    [image |-> s.image, point_loc |-> s.point_loc, pt1 |-> s.pt1, pt2 |-> s.pt2]

\* the keywords threshold and invert pass: pt2 is passed as ptw
PtwKwargs(s) ==
    [image |-> s.image, point_loc |-> s.point_loc, pt1 |-> s.pt1, ptw |-> s.pt2]

NoSignal == LineScan(<<>>, NoKwargs)

(***************************************************************************)
(* What a call gives back.                                                 *)
(***************************************************************************)
Returned(sig) == [kind |-> "LineScan", exc |-> "", sig |-> sig, val |-> <<>>]

ReturnedNone == [kind |-> "None", exc |-> "", sig |-> NoSignal, val |-> <<>>]

\* a list of tuples, a list of numbers, or a single number as a one-element list
ReturnedValue(v) == [kind |-> "value", exc |-> "", sig |-> NoSignal, val |-> v]

Raised(e) == [kind |-> "raise", exc |-> e, sig |-> NoSignal, val |-> <<>>]

\* the outcome of a method: the receiver and the right operand as the call
\* leaves them, and what it returns
Outcome(s, o, r) == [self |-> s, other |-> o, ret |-> r]

(***************************************************************************)
(* Elementwise arithmetic.                                                 *)
(***************************************************************************)
\* operator.sub / add / mul on two ints
OpSub(a, b) == PyInt(a.n - b.n)

OpAdd(a, b) == PyInt(a.n + b.n)

OpMul(a, b) == PyInt(a.n * b.n)

\* operator.div on two ints: floor division, b # 0
OpDiv(a, b) == PyInt(FloorDiv(a.n, b.n))

sub(s, o) ==
    IF Len(s.samples) = Len(o.samples)
    THEN Outcome(s, o, Returned(update(
             LineScan([i \in 1..Len(s.samples) |-> OpSub(s.samples[i], o.samples[i])],
                      NoKwargs), s)))
    ELSE Outcome(s, o, ReturnedNone)

add(s, o) ==
    IF Len(s.samples) = Len(o.samples)
    THEN Outcome(s, o, Returned(update(
             LineScan([i \in 1..Len(s.samples) |-> OpAdd(s.samples[i], o.samples[i])],
                      NoKwargs), s)))
    ELSE Outcome(s, o, ReturnedNone)

\* __mul__ without the length test: the shorter operand decides the length
mul_unchecked(s, o) ==
    LET n == Min2(Len(s.samples), Len(o.samples))
    IN  Outcome(s, o, Returned(update(
            LineScan([i \in 1..n |-> OpMul(s.samples[i], o.samples[i])],
                     NoKwargs), s)))

mul(s, o) ==
    IF Len(s.samples) = Len(o.samples)
    THEN Outcome(s, o, Returned(update(
             LineScan([i \in 1..Len(s.samples) |-> OpMul(s.samples[i], o.samples[i])],
                      NoKwargs), s)))
    ELSE Outcome(s, o, ReturnedNone)

\* __div__: a zero in the right operand is caught and None returned; on
\* success the metadata is copied and the method ends without a return
\* statement, so the caller gets None
div(s, o) ==
    IF Len(s.samples) = Len(o.samples)
    THEN IF \E i \in 1..Len(o.samples) : o.samples[i].n = 0
         THEN Outcome(s, o, ReturnedNone)
         ELSE \* ret_val._update(self) is the last statement
              Outcome(s, o, ReturnedNone)
    ELSE Outcome(s, o, ReturnedNone)

(***************************************************************************)
(* Indexing and slicing.                                                   *)
(***************************************************************************)
\* __getitem__ with a slice key[a:b]: the sliced list is wrapped in a new
\* LineScan built with no keywords and no _update
getitem_slice(s, a, b) ==
    Outcome(s, NoSignal, Returned(LineScan(PySlice(s.samples, a, b), NoKwargs)))

\* __getitem__ with an integer key
getitem(s, key) ==
    IF key >= -Len(s.samples) /\ key < Len(s.samples)
    THEN Outcome(s, NoSignal, ReturnedValue(
             <<s.samples[IF key < 0 THEN Len(s.samples) + key + 1 ELSE key + 1]>>))
    ELSE Outcome(s, NoSignal, Raised("IndexError"))

(***************************************************************************)
(* Filtering and smoothing.                                                *)
(***************************************************************************)
\* smooth: window = 2*degree - 1 weights 1/exp((4*i/window)^2); the list
\* `smoothed` has len(self) - window entries (none when that is negative);
\* the result is self[0:degree-1] + smoothed + self[-degree:].  With
\* degree = 1 the one weight is exp(0) = 1.0 and each smoothed entry is
\* float(self[i]); with a larger degree the entry is a Gaussian weighted mean,
\* carried as an opaque float.
smooth(s, degree) ==
    LET N == Len(s.samples)
        window == degree * 2 - 1
        nsm == Max2(N - window, 0)
        smoothed == [i \in 1..nsm |->
                        IF degree = 1
                        THEN PyFloat(s.samples[i].n, 1)
                        ELSE Opaque("gauss", i - 1, degree)]
        front == PySlice(s.samples, 0, degree - 1) \o smoothed
                     \o PySliceFrom(s.samples, -1 * degree)
    IN  Outcome(s, NoSignal, Returned(update(LineScan(front, StdKwargs(s)), s)))

\* numpy.convolve(a, v, 'same') on non-empty a, v: the max(N, M) entries of the
\* full convolution that start at index (min(N, M) - 1) div 2
RECURSIVE SumProducts(_, _, _, _)
SumProducts(a, v, k, j) ==
    \* sum over j' <= j of a[j'] * v[k - j'] (0-based, terms in range only)
    IF j < 0 THEN PyFloat(0, 1)
    ELSE LET rest == SumProducts(a, v, k, j - 1)
         IN  IF k - j >= 0 /\ k - j < Len(v)
             THEN FAdd(rest, FMul(a[j + 1], v[k - j + 1]))
             ELSE rest

NpConvolveSame(a, v) ==
    LET N == Len(a)
        M == Len(v)
        start == (Min2(N, M) - 1) \div 2
    IN  [i \in 1..Max2(N, M) |-> SumProducts(a, v, start + i - 1, N - 1)]

\* convolve: the result is built from keywords only (image, pt1, pt2 and
\* channel are stored, point_loc is dropped), _update is not called
convolve(s, kernel) ==
    IF Len(s.samples) = 0 \/ Len(kernel) = 0
    THEN Outcome(s, NoSignal, Raised("ValueError"))
    ELSE Outcome(s, NoSignal, Returned(
             LineScan(NpConvolveSame(s.samples, kernel),
                      [image |-> s.image, point_loc |-> s.point_loc,
                       pt1 |-> s.pt1, pt2 |-> s.pt2, channel |-> s.channel])))

\* running_average: an even diameter returns None; the uniform kernel is
\* diameter weights 1/diameter, any kernel name other than 'uniform' and
\* 'gaussian' leaves the kernel empty; the convolution is truncated to ints.
\* (The float32 weight 1/diameter lies above the exact quotient by less than
\* 1e-7, which moves no sum of the modelled samples across an integer.)
\* The Gaussian kernel has 2*int(diameter/2) + 1 transcendental weights: its
\* results are opaque ints, only their number is modelled.
running_average(s, diameter, kernel) ==
    LET k == IF kernel = "uniform"
             THEN [i \in 1..diameter |-> PyFloat(1, diameter)]
             ELSE IF kernel = "gaussian"
                  THEN [i \in 1..(2 * (diameter \div 2) + 1) |-> PyFloat(1, 1)]
                  ELSE <<>>
        conv == convolve(s, k)
        ints == [i \in 1..Len(conv.ret.sig.samples) |->
                    IF kernel = "uniform"
                    THEN PyInt(Trunc(conv.ret.sig.samples[i].n,
                                     conv.ret.sig.samples[i].d))
                    ELSE Opaque("int_gaussian", i - 1, diameter)]
    IN  IF diameter % 2 = 0 THEN Outcome(s, NoSignal, ReturnedNone)
        ELSE IF conv.ret.kind = "raise" THEN Outcome(conv.self, NoSignal, conv.ret)
        ELSE Outcome(conv.self, NoSignal,
                     Returned(update(LineScan(ints, NoKwargs), conv.self)))

\* the k-th smallest (k >= 1) integer of a non-empty list of ints
KthSmallest(w, k) ==
    CHOOSE v \in {w[j].n : j \in 1..Len(w)} :
        /\ Cardinality({j \in 1..Len(w) : w[j].n < v}) < k
        /\ Cardinality({j \in 1..Len(w) : w[j].n <= v}) >= k

\* numpy.median of a list of ints: nan for an empty list, the middle value or
\* the mean of the two middle values otherwise, as a float
NpMedian(w) ==
    IF Len(w) = 0 THEN NaN
    ELSE IF Len(w) % 2 = 1 THEN PyFloat(KthSmallest(w, (Len(w) + 1) \div 2), 1)
    ELSE PyFloat(KthSmallest(w, Len(w) \div 2) + KthSmallest(w, Len(w) \div 2 + 1), 2)

\* median that appends to the receiver itself instead of to the slice
\* self[0:skip]
median_in_place(s, size) ==
    LET N == Len(s.samples)
        size1 == IF size % 2 = 0 THEN size + 1 ELSE size
        skip == size1 \div 2
        nmid == Max2(N - 2 * skip, 0)
        mid == [j \in 1..nmid |->
                   NpMedian(PySlice(s.samples, j - 1, j - 1 + 2 * skip))]
        out == s.samples \o mid \o PySliceFrom(s.samples, -1 * skip)
    IN  Outcome([s EXCEPT !.samples = out], NoSignal,
                Returned(update(LineScan(out, StdKwargs(s)), s)))

\* median: an even size is incremented; skip = floor(size/2); the result is
\* self[0:skip], then the median of self[i-skip:i+skip] for each i in
\* range(skip, len(self)-skip), then every sample of self[-skip:]
median(s, size) ==
    LET N == Len(s.samples)
        size1 == IF size % 2 = 0 THEN size + 1 ELSE size
        skip == size1 \div 2
        nmid == Max2(N - 2 * skip, 0)
        mid == [j \in 1..nmid |->
                   NpMedian(PySlice(s.samples, j - 1, j - 1 + 2 * skip))]
        out == PySlice(s.samples, 0, skip) \o mid
                   \o PySliceFrom(s.samples, -1 * skip)
    IN  Outcome(s, NoSignal, Returned(update(LineScan(out, StdKwargs(s)), s)))

(***************************************************************************)
(* Normalization and scaling.                                              *)
(***************************************************************************)
\* the largest / smallest of a non-empty list of finite numbers
MaxOf(w) == CHOOSE v \in {w[j] : j \in 1..Len(w)} :
                \A j \in 1..Len(w) : NumLe(w[j], v)

MinOf(w) == CHOOSE v \in {w[j] : j \in 1..Len(w)} :
                \A j \in 1..Len(w) : NumLe(v, w[j])

\* normalize that divides by the minimum
normalize_by_min(s) ==
    IF Len(s.samples) = 0 THEN Outcome(s, NoSignal, Raised("ValueError"))
    ELSE LET m == MinOf(s.samples)
             tmp == [i \in 1..Len(s.samples) |-> NpDiv(s.samples[i], m)]
         IN  Outcome(s, NoSignal, Returned(update(LineScan(tmp, StdKwargs(s)), s)))

\* normalize: the samples as floats, divided in place by their maximum;
\* numpy.max of an empty array raises, a zero maximum divides to inf / nan
normalize(s) ==
    IF Len(s.samples) = 0 THEN Outcome(s, NoSignal, Raised("ValueError"))
    ELSE LET m == MaxOf(s.samples)
             tmp == [i \in 1..Len(s.samples) |-> NpDiv(s.samples[i], m)]
         IN  Outcome(s, NoSignal, Returned(update(LineScan(tmp, StdKwargs(s)), s)))

\* scale: ((b - a) / (vmax - vmin)) * (tmp - vmin) + a with a, b the smaller
\* and larger of val_range; when vmax = vmin the factor is inf or nan and
\* every product with tmp - vmin = 0 is nan
scale(s, val_range) ==
    IF Len(s.samples) = 0 THEN Outcome(s, NoSignal, Raised("ValueError"))
    ELSE LET vmax == MaxOf(s.samples)
             vmin == MinOf(s.samples)
             a == PyInt(Min2(val_range[1], val_range[2]))
             b == PyInt(Max2(val_range[1], val_range[2]))
             tmp == [i \in 1..Len(s.samples) |->
                        IF NumEq(vmax, vmin) THEN NaN
                        ELSE FAdd(FMul(FDiv(FSub(b, a), FSub(vmax, vmin)),
                                       FSub(s.samples[i], vmin)), a)]
         IN  Outcome(s, NoSignal, Returned(update(LineScan(tmp, StdKwargs(s)), s)))

\* derivative: [0] followed by the len(self) - 1 successive differences
derivative(s) ==
    LET N == Len(s.samples)
        d == <<PyInt(0)>> \o [i \in 1..Max2(N - 1, 0) |->
                                 FSub(s.samples[i + 1], s.samples[i])]
    IN  Outcome(s, NoSignal, Returned(update(
            LineScan(d, [image |-> "self", point_loc |-> s.point_loc,
                         pt1 |-> s.pt1, pt2 |-> s.pt2]), s)))

\* resample: scipy.signal.resample gives n Fourier-interpolated samples
\* (opaque floats); new coordinates pts are computed and not used, the result
\* takes self.point_loc.  An empty signal has no pts[0, 0].
resample(s, n) ==
    IF Len(s.samples) = 0 THEN Outcome(s, NoSignal, Raised("IndexError"))
    ELSE LET sig == [i \in 1..n |-> Opaque("resampled", i - 1, n)]
         IN  Outcome(s, NoSignal, Returned(update(LineScan(sig, StdKwargs(s)), s)))

(***************************************************************************)
(* The lookup-table engine.                                                *)
(***************************************************************************)
\* numpy.clip
NpClip(v, lo, hi) == IF v < lo THEN lo ELSE IF v > hi THEN hi ELSE v

\* the conversion of a float with integer part q to dtype uint8.  In range it
\* is q.  Out of range the C conversion is undefined: the builds produce
\* the low 8 bits (wrap = TRUE) or the saturated value (wrap = FALSE).
ToUint8(q, wrap) ==
    IF q >= 0 /\ q <= 255 THEN q
    ELSE IF wrap THEN q % 256
    ELSE IF q < 0 THEN 0 ELSE 255

\* lut with a number val (a list or tuple val reaches the misspelt
\* numpy.linsapce and raises AttributeError):
\*   val = 0: 256 floats 0.0
\*   val > 0: 256 times clip(val, 1, 255) as uint8
\*   val < 0: numpy.linspace(0, 256, 256), entry i = i * 256 / 255, as uint8
lut(val, wrap) ==
    IF val = 0 THEN [i \in 1..256 |-> PyFloat(0, 1)]
    ELSE IF val > 0 THEN [i \in 1..256 |-> PyInt(ToUint8(NpClip(val, 1, 255), wrap))]
    ELSE [i \in 1..256 |-> PyInt(ToUint8(((i - 1) * 256) \div 255, wrap))]

\* apply_lut: out[i] = lut[self[i]] with Python's list indexing, where an
\* index in [-len(lut), 0) counts from the end and any other index outside
\* [0, len(lut)) raises IndexError
apply_lut(s, table) ==
    LET L == Len(table)
        ok(p) == p.n >= -L /\ p.n < L
        at(p) == table[IF p.n < 0 THEN L + p.n + 1 ELSE p.n + 1]
    IN  IF \E i \in 1..Len(s.samples) : ~ok(s.samples[i])
        THEN Outcome(s, NoSignal, Raised("IndexError"))
        ELSE Outcome(s, NoSignal, Returned(update(
                 LineScan([i \in 1..Len(s.samples) |-> at(s.samples[i])],
                          StdKwargs(s)), s)))

\* threshold: low for p < threshold, high otherwise; (high, low) is (255, 0),
\* swapped when invert is set
threshold(s, thresh, inv) ==
    LET high == IF inv THEN 0 ELSE 255
        low == IF inv THEN 255 ELSE 0
        out == [i \in 1..Len(s.samples) |->
                   IF s.samples[i].n < thresh THEN PyInt(low) ELSE PyInt(high)]
    IN  Outcome(s, NoSignal, Returned(update(LineScan(out, PtwKwargs(s)), s)))

\* invert: out[i] = 255 - p; the parameter max is not read
invert(s, max) ==
    LET out == [i \in 1..Len(s.samples) |-> PyInt(255 - s.samples[i].n)]
    IN  Outcome(s, NoSignal, Returned(update(LineScan(out, PtwKwargs(s)), s)))

(***************************************************************************)
(* Statistics and search.                                                  *)
(***************************************************************************)
RECURSIVE SumOf(_, _)
\* w[1] + ... + w[k] as a float
SumOf(w, k) == IF k = 0 THEN PyFloat(0, 1) ELSE FAdd(SumOf(w, k - 1), w[k])

\* mean: sum(self) / len(self) with true division
mean(s) ==
    IF Len(s.samples) = 0 THEN Outcome(s, NoSignal, Raised("ZeroDivisionError"))
    ELSE Outcome(s, NoSignal, ReturnedValue(
             <<FDiv(SumOf(s.samples, Len(s.samples)), PyInt(Len(s.samples)))>>))

\* the population variance of a non-empty list
VarianceOf(w) ==
    LET N == Len(w)
        m == FDiv(SumOf(w, N), PyInt(N))
        sq == [i \in 1..N |-> FMul(FSub(w[i], m), FSub(w[i], m))]
    IN  FDiv(SumOf(sq, N), PyInt(N))

variance(s) ==
    IF Len(s.samples) = 0 THEN Outcome(s, NoSignal, Raised("ZeroDivisionError"))
    ELSE Outcome(s, NoSignal, ReturnedValue(<<VarianceOf(s.samples)>>))

\* deviation: numpy.sqrt of the variance n/d, an opaque float
deviation(s) ==
    IF Len(s.samples) = 0 THEN Outcome(s, NoSignal, Raised("ZeroDivisionError"))
    ELSE Outcome(s, NoSignal, ReturnedValue(
             <<Opaque("sqrt", VarianceOf(s.samples).n, VarianceOf(s.samples).d)>>))

\* npy.where(npy.array(self) == value)[0]: the 0-based indices of the samples
\* equal to value
WhereEqual(w, value) == {i \in 0..(Len(w) - 1) : w[i + 1].n = value}

\* npy.where(npy.array(self) >= value)[0]
WhereGreaterEqual(w, value) == {i \in 0..(Len(w) - 1) : w[i + 1].n >= value}

SetMin(S) == CHOOSE x \in S : \A y \in S : x <= y

SetMax(S) == CHOOSE x \in S : \A y \in S : x >= y

\* the first matching index, or None when no sample matches
find_first_index_equal(s, value) ==
    LET vals == WhereEqual(s.samples, value)
    IN  IF vals = {} THEN Outcome(s, NoSignal, ReturnedNone)
        ELSE Outcome(s, NoSignal, ReturnedValue(<<SetMin(vals)>>))

find_last_index_equal(s, value) ==
    LET vals == WhereEqual(s.samples, value)
    IN  IF vals = {} THEN Outcome(s, NoSignal, ReturnedNone)
        ELSE Outcome(s, NoSignal, ReturnedValue(<<SetMax(vals)>>))

\* despite its name the test is >=
find_first_index_greater(s, value) ==
    LET vals == WhereGreaterEqual(s.samples, value)
    IN  IF vals = {} THEN Outcome(s, NoSignal, ReturnedNone)
        ELSE Outcome(s, NoSignal, ReturnedValue(<<SetMin(vals)>>))

(***************************************************************************)
(* Extrema.                                                                *)
(***************************************************************************)
RECURSIVE SortedSeq(_)
\* a set of integers as an ascending list
SortedSeq(S) == IF S = {} THEN <<>>
                ELSE <<SetMin(S)>> \o SortedSeq(S \ {SetMin(S)})

\* the (index, value, point) tuples of minima and maxima: the indices where
\* the sample equals the extreme value, the value as a float, the point
\* point_loc[index]; indexing point_loc past its end raises
ExtremeTuples(s, v) ==
    LET idxs == SortedSeq({i \in 0..(Len(s.samples) - 1) : NumEq(s.samples[i + 1], v)})
    IN  IF \E k \in 1..Len(idxs) : idxs[k] >= Len(s.point_loc)
        THEN Outcome(s, NoSignal, Raised("IndexError"))
        ELSE Outcome(s, NoSignal, ReturnedValue(
                 [k \in 1..Len(idxs) |->
                     [i |-> idxs[k], v |-> PyFloat(v.n, v.d),
                      pt |-> s.point_loc[idxs[k] + 1]]]))

minima(s) ==
    IF Len(s.samples) = 0 THEN Outcome(s, NoSignal, Raised("ValueError"))
    ELSE ExtremeTuples(s, MinOf(s.samples))

maxima(s) ==
    IF Len(s.samples) = 0 THEN Outcome(s, NoSignal, Raised("ValueError"))
    ELSE ExtremeTuples(s, MaxOf(s.samples))

\* the boolean array of local_minima:
\* npy.r_[True, tmp[1:] < tmp[:-1]] & npy.r_[tmp[:-1] < tmp[1:], True]
\* (one element, True, for an empty signal)
LocalMinIdx(w) ==
    [i \in 1..Max2(Len(w), 1) |->
        /\ (i = 1 \/ NumLt(w[i], w[i - 1]))
        /\ (i >= Len(w) \/ NumLt(w[i], w[i + 1]))]

\* the boolean array of local_maxmima, with > for <
LocalMaxIdx(w) ==
    [i \in 1..Max2(Len(w), 1) |->
        /\ (i = 1 \/ NumLt(w[i - 1], w[i]))
        /\ (i >= Len(w) \/ NumLt(w[i + 1], w[i]))]

\* `idx is True`: the identity test of the array object idx with the
\* singleton True, which no array is, whatever it holds
IsTrueObject(idx) == FALSE

\* npy.where(c)[0] of a single boolean c: index 0 when it holds, else nothing
NpWhereScalar(c) == IF c THEN <<0>> ELSE <<>>

\* zip(i, tmp[i], pts[i]) for the index list i; an index past the samples
\* or the points raises
LocalTuples(s, i) ==
    IF \E k \in 1..Len(i) : i[k] >= Len(s.samples) \/ i[k] >= Len(s.point_loc)
    THEN Outcome(s, NoSignal, Raised("IndexError"))
    ELSE Outcome(s, NoSignal, ReturnedValue(
             [k \in 1..Len(i) |->
                 [i |-> i[k], v |-> s.samples[i[k] + 1], pt |-> s.point_loc[i[k] + 1]]]))

\* local_minima: the indices are npy.where(idx is True)[0]
local_minima(s) ==
    LocalTuples(s, NpWhereScalar(IsTrueObject(LocalMinIdx(s.samples))))

local_maxmima(s) ==
    LocalTuples(s, NpWhereScalar(IsTrueObject(LocalMaxIdx(s.samples))))

(***************************************************************************)
(* Windowed peaks and valleys.                                             *)
(***************************************************************************)
\* a > b where either may be -inf
GtInf(a, b) == IF a = NegInf THEN FALSE ELSE IF b = NegInf THEN TRUE ELSE NumLt(b, a)

\* one pass of the loop body of find_peaks with the neighbourhood minimum in
\* place of its maximum
PeakLoopBodyMinHood(w, i, width, delta, maximum, max_pos, peaks) ==
    LET val == w[i + 1]
        upd == GtInf(val, maximum)
        maximum1 == IF upd THEN val ELSE maximum
        max_pos1 == IF upd THEN i ELSE max_pos
        hood == PySlice(w, Max2(0, i - width), i + width)
        emit == Len(hood) > 0 /\ GtInf(maximum1, FAdd(MinOf(hood), PyInt(delta)))
    IN  [err |-> Len(hood) = 0, emitted |-> emit,
         running |-> maximum1, running_pos |-> max_pos1,
         maximum |-> IF emit THEN NegInf ELSE maximum1,
         max_pos |-> max_pos1,
         peaks |-> IF emit THEN Append(peaks, <<max_pos1, maximum1>>) ELSE peaks]

\* one pass of the loop body of find_peaks at index i < len(self): maximum is
\* the running maximum (-inf at the start and after a reset), max_pos its
\* index, peaks the tuples appended so far.  The running maximum is updated
\* by `val > maximum`; the neighbourhood is self[max(0, i-width):i+width],
\* whose max() raises ValueError when it is empty; a tuple is appended and
\* the maximum reset when max(neighbourhood) + delta < maximum.
PeakLoopBody(w, i, width, delta, maximum, max_pos, peaks) ==
    LET val == w[i + 1]
        upd == GtInf(val, maximum)
        maximum1 == IF upd THEN val ELSE maximum
        max_pos1 == IF upd THEN i ELSE max_pos
        hood == PySlice(w, Max2(0, i - width), i + width)
        emit == Len(hood) > 0 /\ GtInf(maximum1, FAdd(MaxOf(hood), PyInt(delta)))
    IN  [err |-> Len(hood) = 0, emitted |-> emit,
         running |-> maximum1, running_pos |-> max_pos1,
         maximum |-> IF emit THEN NegInf ELSE maximum1,
         max_pos |-> max_pos1,
         peaks |-> IF emit THEN Append(peaks, <<max_pos1, maximum1>>) ELSE peaks]

RECURSIVE PeakScan(_, _, _, _, _, _, _)
\* the loop of find_peaks from index i on
PeakScan(w, i, width, delta, maximum, max_pos, peaks) ==
    IF i >= Len(w) THEN [err |-> FALSE, out |-> peaks]
    ELSE LET b == PeakLoopBody(w, i, width, delta, maximum, max_pos, peaks)
         IN  IF b.err THEN [err |-> TRUE, out |-> peaks]
             ELSE PeakScan(w, i + 1, width, delta, b.maximum, b.max_pos, b.peaks)

find_peaks(s, window, delta) ==
    LET width == window \div 2
        r == PeakScan(s.samples, 0, width, delta, NegInf, -1, <<>>)
    IN  IF r.err THEN Outcome(s, NoSignal, Raised("ValueError"))
        ELSE Outcome(s, NoSignal, ReturnedValue(r.out))

RECURSIVE ValleyScan(_, _, _, _, _, _, _)
\* the loop of find_valleys: minimum starts at -inf, as in find_peaks, is
\* replaced by a sample below it and is compared with min(neighbourhood) - delta
ValleyScan(w, i, width, delta, minimum, min_pos, valleys) ==
    IF i >= Len(w) THEN [err |-> FALSE, out |-> valleys]
    ELSE LET val == w[i + 1]
             upd == GtInf(minimum, val)
             minimum1 == IF upd THEN val ELSE minimum
             min_pos1 == IF upd THEN i ELSE min_pos
             hood == PySlice(w, Max2(0, i - width), i + width)
         IN  IF Len(hood) = 0 THEN [err |-> TRUE, out |-> valleys]
             ELSE IF GtInf(minimum1, FSub(MinOf(hood), PyInt(delta)))
                  THEN ValleyScan(w, i + 1, width, delta, NegInf, min_pos1,
                                  Append(valleys, <<min_pos1, minimum1>>))
                  ELSE ValleyScan(w, i + 1, width, delta, minimum1, min_pos1, valleys)

find_valleys(s, window, delta) ==
    LET width == window \div 2
        r == ValleyScan(s.samples, 0, width, delta, NegInf, -1, <<>>)
    IN  IF r.err THEN Outcome(s, NoSignal, Raised("ValueError"))
        ELSE Outcome(s, NoSignal, ReturnedValue(r.out))

(***************************************************************************)
(* The inputs of the model.                                                *)
(***************************************************************************)
\* the lists over S of length at most n
SeqsUpTo(S, n) == UNION {[1..k -> S] : k \in 0..n}

\* explicit metadata given to the constructor, with coordinates for n samples
ExplicitKwargs(n) ==
    [image |-> "img", pt1 |-> "p1", pt2 |-> "p2", channel |-> 1,
     point_loc |-> [i \in 1..n |-> <<i + 4, 9>>]]

\* the objects the constructor gives for the modelled arguments
Constructed ==
    {LineScan(Ints(w), kw) : w \in SeqsUpTo(SampleVals, MaxLen), kw \in {NoKwargs}}
    \cup {LineScan(Ints(w), ExplicitKwargs(Len(w))) : w \in SeqsUpTo(SampleVals, MaxLen)}

\* the right operands: objects with metadata of their own
Others ==
    {LineScan(Ints(w), [image |-> "img2", pt1 |-> "q1", pt2 |-> "q2", channel |-> 2]) :
        w \in SeqsUpTo(OtherVals, MaxLen)}

Args == 1..MaxArg

Bounds == 0..MaxLen

Keys == (0 - MaxLen - 1)..MaxLen

Kernels == {[i \in 1..k |-> PyFloat(1, 1)] : k \in 0..MaxArg}
               \cup {<<PyFloat(1, 1), PyFloat(-1, 1)>>}

KernelNames == {"uniform", "gaussian", "other"}

Ranges == {<<0, 1>>, <<1, 0>>, <<2, 2>>}

LutSeeds == {-1, 0, 3}

Tables == {lut(v, wrap) : v \in LutSeeds, wrap \in BOOLEAN}
              \cup {<<PyInt(7), PyInt(9)>>}

Thresholds == {-1, 2, 128}

InvertMax == {255, 100}

Deltas == {1, 2}

(***************************************************************************)
(* The state machine.                                                      *)
(***************************************************************************)
\* the record of a call: op the method, a and b its integer arguments, flag
\* a boolean argument, name a string argument, seq a list argument
Call(op, a, b, flag, name, seq, other, out) ==
    [op |-> op, a |-> a, b |-> b, flag |-> flag, name |-> name, seq |-> seq,
     self_before |-> self, other_before |-> other, other_after |-> out.other]

\* the caller holds an object and has no call in progress
Ready == call.op \in {"__init__", "adopt", "keep"}

\* a call leaves the receiver as the method left it and records the outcome
Do(op, a, b, flag, name, seq, other, out) ==
    /\ Ready
    /\ self' = out.self
    /\ call' = Call(op, a, b, flag, name, seq, other, out)
    /\ ret' = out.ret

Unary(op, a, b, flag, name, seq, out) == Do(op, a, b, flag, name, seq, NoSignal, out)

Init ==
    /\ self \in Constructed
    /\ call = [op |-> "__init__", a |-> 0, b |-> 0, flag |-> FALSE, name |-> "",
               seq |-> <<>>, self_before |-> self, other_before |-> NoSignal,
               other_after |-> NoSignal]
    /\ ret = Returned(self)

Sub == \E o \in Others : Do("__sub__", 0, 0, FALSE, "", <<>>, o, sub(self, o))

Add == \E o \in Others : Do("__add__", 0, 0, FALSE, "", <<>>, o, add(self, o))

Mul == \E o \in Others : Do("__mul__", 0, 0, FALSE, "", <<>>, o, mul(self, o))

Div == \E o \in Others : Do("__div__", 0, 0, FALSE, "", <<>>, o, div(self, o))

GetSlice == \E a \in Bounds, b \in Bounds :
    Unary("__getitem__", a, b, TRUE, "", <<>>, getitem_slice(self, a, b))

GetItem == \E key \in Keys :
    Unary("__getitem__", key, 0, FALSE, "", <<>>, getitem(self, key))

Smooth == \E degree \in Args :
    Unary("smooth", degree, 0, FALSE, "", <<>>, smooth(self, degree))

Normalize == Unary("normalize", 0, 0, FALSE, "", <<>>, normalize(self))

Scale == \E r \in Ranges : Unary("scale", 0, 0, FALSE, "", r, scale(self, r))

Derivative == Unary("derivative", 0, 0, FALSE, "", <<>>, derivative(self))

Resample == \E n \in Args : Unary("resample", n, 0, FALSE, "", <<>>, resample(self, n))

Convolve == \E k \in Kernels : Unary("convolve", 0, 0, FALSE, "", k, convolve(self, k))

RunningAverage == \E d \in Args, k \in KernelNames :
    Unary("running_average", d, 0, FALSE, k, <<>>, running_average(self, d, k))

Median == \E size \in Args : Unary("median", size, 0, FALSE, "", <<>>, median(self, size))

Threshold == \E th \in Thresholds, inv \in BOOLEAN :
    Unary("threshold", th, 0, inv, "", <<>>, threshold(self, th, inv))

Invert == \E max \in InvertMax : Unary("invert", max, 0, FALSE, "", <<>>, invert(self, max))

ApplyLut == \E table \in Tables :
    Unary("apply_lut", 0, 0, FALSE, "", table, apply_lut(self, table))

Mean == Unary("mean", 0, 0, FALSE, "", <<>>, mean(self))

Variance == Unary("variance", 0, 0, FALSE, "", <<>>, variance(self))

Deviation == Unary("deviation", 0, 0, FALSE, "", <<>>, deviation(self))

FindFirstIndexEqual == \E v \in SampleVals :
    Unary("find_first_index_equal", v, 0, FALSE, "", <<>>, find_first_index_equal(self, v))

FindLastIndexEqual == \E v \in SampleVals :
    Unary("find_last_index_equal", v, 0, FALSE, "", <<>>, find_last_index_equal(self, v))

FindFirstIndexGreater == \E v \in SampleVals :
    Unary("find_first_index_greater", v, 0, FALSE, "", <<>>,
          find_first_index_greater(self, v))

Minima == Unary("minima", 0, 0, FALSE, "", <<>>, minima(self))

Maxima == Unary("maxima", 0, 0, FALSE, "", <<>>, maxima(self))

LocalMinima == Unary("local_minima", 0, 0, FALSE, "", <<>>, local_minima(self))

LocalMaxmima == Unary("local_maxmima", 0, 0, FALSE, "", <<>>, local_maxmima(self))

FindPeaks == \E window \in Args, delta \in Deltas :
    Unary("find_peaks", window, delta, FALSE, "", <<>>, find_peaks(self, window, delta))

FindValleys == \E window \in Args, delta \in Deltas :
    Unary("find_valleys", window, delta, FALSE, "", <<>>, find_valleys(self, window, delta))

\* the caller goes on with the LineScan a call returned.  The model follows
\* it while its samples stay ints of SampleVals and no more than MaxLen.
Adopt ==
    /\ ~Ready
    /\ ret.kind = "LineScan"
    /\ Len(ret.sig.samples) <= MaxLen
    /\ \A i \in 1..Len(ret.sig.samples) :
          IsInt(ret.sig.samples[i]) /\ ret.sig.samples[i].n \in SampleVals
    /\ self' = ret.sig
    /\ call' = [op |-> "adopt", a |-> 0, b |-> 0, flag |-> FALSE, name |-> "",
                seq |-> <<>>, self_before |-> ret.sig, other_before |-> NoSignal,
                other_after |-> NoSignal]
    /\ ret' = ret

\* the caller drops what the call gave and goes on with the receiver
Keep ==
    /\ ~Ready
    /\ self' = self
    /\ call' = [op |-> "keep", a |-> 0, b |-> 0, flag |-> FALSE, name |-> "",
                seq |-> <<>>, self_before |-> self, other_before |-> NoSignal,
                other_after |-> NoSignal]
    /\ ret' = Returned(self)

Next ==
    \/ Sub \/ Add \/ Mul \/ Div
    \/ GetSlice \/ GetItem
    \/ Smooth \/ Normalize \/ Scale \/ Derivative \/ Resample
    \/ Convolve \/ RunningAverage \/ Median
    \/ Threshold \/ Invert \/ ApplyLut
    \/ Mean \/ Variance \/ Deviation
    \/ FindFirstIndexEqual \/ FindLastIndexEqual \/ FindFirstIndexGreater
    \/ Minima \/ Maxima \/ LocalMinima \/ LocalMaxmima
    \/ FindPeaks \/ FindValleys
    \/ Adopt \/ Keep

Spec == Init /\ [][Next]_vars

(***************************************************************************)
(* find_peaks, one loop pass at a time.  `self` is the receiver, `call`    *)
(* the call with the loop's variables (i the next index, maximum and       *)
(* max_pos as the last pass left them, running and running_pos the running *)
(* maximum and its index after the update of the last pass, emitted        *)
(* whether that pass appended a peak), `ret` the list peaks so far and,    *)
(* at the end, what the call returns.                                      *)
(***************************************************************************)
PeakVals == {1, 2, 5}

\* the lists a, b, a, b, ... of n samples
Alternating(a, b, n) == [i \in 1..n |-> IF i % 2 = 1 THEN a ELSE b]

PeakInputs ==
    {LineScan(Ints(w), NoKwargs) : w \in SeqsUpTo(PeakVals, PeakLen)}
    \cup {LineScan(Ints(Alternating(a, b, n)), NoKwargs) :
              a \in PeakVals, b \in PeakVals, n \in 0..AltLen}

PeakCall(window, delta, i, b, pc) ==
    [op |-> "find_peaks", a |-> window, b |-> delta, flag |-> FALSE, name |-> "",
     seq |-> <<>>, self_before |-> self, other_before |-> NoSignal,
     other_after |-> NoSignal,
     i |-> i, maximum |-> b.maximum, max_pos |-> b.max_pos,
     running |-> b.running, running_pos |-> b.running_pos,
     emitted |-> b.emitted, pc |-> pc]

PeakInit ==
    /\ self \in PeakInputs
    /\ \E window \in Args, delta \in Deltas :
          call = PeakCall(window, delta, 0,
                          [maximum |-> NegInf, max_pos |-> -1, running |-> NegInf,
                           running_pos |-> -1, emitted |-> FALSE], "loop")
    /\ ret = ReturnedValue(<<>>)

\* one pass of the for loop
PeakStep ==
    /\ call.pc = "loop"
    /\ call.i < Len(self.samples)
    /\ LET b == PeakLoopBody(self.samples, call.i, call.a \div 2, call.b,
                             call.maximum, call.max_pos, ret.val)
       IN  /\ call' = PeakCall(call.a, call.b, call.i + 1, b,
                               IF b.err THEN "raised" ELSE "loop")
           /\ ret' = IF b.err THEN Raised("ValueError") ELSE ReturnedValue(b.peaks)
    /\ self' = self

\* the loop is exhausted: return peaks
PeakReturn ==
    /\ call.pc = "loop"
    /\ call.i >= Len(self.samples)
    /\ call' = [call EXCEPT !.pc = "done"]
    /\ UNCHANGED <<self, ret>>

PeakNext == PeakStep \/ PeakReturn

PeakSpec == PeakInit /\ [][PeakNext]_vars

(***************************************************************************)
(* Properties.                                                             *)
(***************************************************************************)
ArithOps == {"__sub__", "__add__", "__mul__", "__div__"}

Before == call.self_before

Right == call.other_before

SameLength == Len(Before.samples) = Len(Right.samples)

\* the image, endpoints, channel and coordinates of a LineScan
Meta(s) == <<s.image, s.pt1, s.pt2, s.channel, s.point_loc>>

AllFinite(w) == \A i \in 1..Len(w) : IsFinite(w[i])

NotAllEqual(w) == \E i, j \in 1..Len(w) : w[i] # w[j]

Expected(op, x, y) ==
    IF op = "__sub__" THEN OpSub(x, y)
    ELSE IF op = "__add__" THEN OpAdd(x, y)
    ELSE IF op = "__mul__" THEN OpMul(x, y)
    ELSE OpDiv(x, y)

\* C2: add, subtract, multiply and divide on operands of equal length (no
\* zero in the right operand of a division) return a new LineScan of that
\* length with r[i] = op(a[i], b[i]) and the metadata of the left operand.
C2_ElementwiseResult ==
    (/\ call.op \in ArithOps
     /\ SameLength
     /\ call.op = "__div__" => \A i \in 1..Len(Right.samples) : Right.samples[i].n # 0)
        => /\ ret.kind = "LineScan"
           /\ Len(ret.sig.samples) = Len(Before.samples)
           /\ \A i \in 1..Len(ret.sig.samples) :
                 ret.sig.samples[i] = Expected(call.op, Before.samples[i], Right.samples[i])
           /\ Meta(ret.sig) = Meta(Before)

\* the transformations C3 names
MetaOps ==
    ArithOps \cup {"smooth", "normalize", "scale", "convolve", "running_average",
                   "median", "threshold", "invert", "apply_lut"}

\* C3: a LineScan returned by a slice, an arithmetic operator, smooth,
\* normalize, scale, convolve, running_average, median, threshold, invert or
\* apply_lut has the image, endpoints, channel and coordinates of the
\* receiver (for a slice s[a:b], the coordinates of s or their slice [a:b]).
C3_MetadataPropagates ==
    /\ (call.op \in MetaOps /\ ret.kind = "LineScan") => Meta(ret.sig) = Meta(Before)
    /\ (call.op = "__getitem__" /\ call.flag)
           => /\ ret.kind = "LineScan"
              /\ <<ret.sig.image, ret.sig.pt1, ret.sig.pt2, ret.sig.channel>>
                     = <<Before.image, Before.pt1, Before.pt2, Before.channel>>
              /\ ret.sig.point_loc
                     \in {Before.point_loc, PySlice(Before.point_loc, call.a, call.b)}

\* C4: every LineScan, constructed or returned by an operation, has as many
\* coordinates as samples.
C4_SamplesMatchCoordinates ==
    /\ Len(self.samples) = Len(self.point_loc)
    /\ ret.kind = "LineScan" => Len(ret.sig.samples) = Len(ret.sig.point_loc)

\* C5: no call changes its receiver or its right operand: after a call,
\* whether it returned or raised, the samples and every metadata field of
\* both are what they were before it.
C5_InputsUnchanged ==
    ~Ready => (self = call.self_before /\ call.other_after = call.other_before)

C5_Witness ==
    /\ call.op = "median"
    /\ Len(Before.samples) = 3
    /\ ret.kind = "LineScan"
    /\ ret.sig.samples # Before.samples
    /\ self = Before

C5_WitnessRaise ==
    /\ call.op = "apply_lut"
    /\ ret.kind = "raise"
    /\ Len(self.samples) = 2
    /\ self = Before

\* C6: invert(max) returns a LineScan of the same length with
\* out[i] = max - s[i], for every max.
C6_InvertUsesMax ==
    call.op = "invert"
        => /\ ret.kind = "LineScan"
           /\ Len(ret.sig.samples) = Len(Before.samples)
           /\ \A i \in 1..Len(ret.sig.samples) :
                 ret.sig.samples[i] = PyInt(call.a - Before.samples[i].n)

\* the result of a normalize call is a LineScan of finite numbers whose
\* largest is exactly 1
NormalizedToOne ==
    /\ ret.kind = "LineScan"
    /\ Len(ret.sig.samples) = Len(Before.samples)
    /\ AllFinite(ret.sig.samples)
    /\ NumEq(MaxOf(ret.sig.samples), PyInt(1))

\* C7 as stated: normalize() of samples that are not all equal, whatever the
\* sign of their maximum, gives max(r) = 1.
C7_NormalizeMaxIsOne ==
    (call.op = "normalize" /\ NotAllEqual(Before.samples)) => NormalizedToOne

\* C7 amended: normalize() of samples that are not all equal and whose
\* maximum is positive gives r[i] = s[i] / max(s) and max(r) = 1 exactly.
C7_NormalizePositiveMaxIsOne ==
    (/\ call.op = "normalize"
     /\ NotAllEqual(Before.samples)
     /\ MaxOf(Before.samples).n > 0)
        => /\ NormalizedToOne
           /\ \A i \in 1..Len(ret.sig.samples) :
                 NumEq(FMul(ret.sig.samples[i], MaxOf(Before.samples)), Before.samples[i])

C7_Witness ==
    /\ call.op = "normalize"
    /\ Before.samples = Ints(<<-2, 2, 255>>)
    /\ ret.kind = "LineScan"
    /\ ret.sig.samples[3] = PyFloat(1, 1)
    /\ ret.sig.samples[2] = PyFloat(2, 255)

\* the tables lut() builds for a negative seed
IdentityLuts == {lut(-1, wrap) : wrap \in BOOLEAN}

\* C8: applying the table lut() builds for the default seed to samples in
\* 0..255 returns the samples unchanged (table[v] = v for v in 0..255).
C8_IdentityLut ==
    (/\ call.op = "apply_lut"
     /\ call.seq \in IdentityLuts
     /\ \A i \in 1..Len(Before.samples) :
           Before.samples[i].n >= 0 /\ Before.samples[i].n <= 255)
        => /\ ret.kind = "LineScan"
           /\ Len(ret.sig.samples) = Len(Before.samples)
           /\ \A i \in 1..Len(ret.sig.samples) :
                 NumEq(ret.sig.samples[i], Before.samples[i])

\* C9: apply_lut(table) raises IndexError when a sample lies outside
\* [0, len(table)), negative samples included, and otherwise returns
\* out[i] = table[s[i]].
C9_ApplyLutRange ==
    call.op = "apply_lut"
        => IF \E i \in 1..Len(Before.samples) :
                  Before.samples[i].n < 0 \/ Before.samples[i].n >= Len(call.seq)
           THEN ret.kind = "raise" /\ ret.exc = "IndexError"
           ELSE /\ ret.kind = "LineScan"
                /\ Len(ret.sig.samples) = Len(Before.samples)
                /\ \A i \in 1..Len(ret.sig.samples) :
                      ret.sig.samples[i] = call.seq[Before.samples[i].n + 1]

\* C10: median(size) and smooth(degree) return as many samples as the
\* receiver has, for every length and every positive size or degree.
C10_FiltersKeepLength ==
    call.op \in {"median", "smooth"}
        => (ret.kind = "LineScan" /\ Len(ret.sig.samples) = Len(Before.samples))

\* the indices (0-based) local_minima or local_maxmima is to report for the
\* samples w: the two boundary indices and every interior index whose sample
\* is strictly below (above) both neighbours
QualifyingIndices(op, w) ==
    {i \in 0..(Len(w) - 1) :
        \/ i = 0
        \/ i = Len(w) - 1
        \/ IF op = "local_minima"
           THEN NumLt(w[i + 1], w[i]) /\ NumLt(w[i + 1], w[i + 2])
           ELSE NumLt(w[i], w[i + 1]) /\ NumLt(w[i + 2], w[i + 1])}

\* C14: local_minima (local_maxmima) returns a tuple (i, s[i], coordinate[i])
\* for every interior index strictly below (above) both neighbours and for the
\* boundary indices 0 and N-1; no qualifying index is omitted.
C14_LocalExtremaReported ==
    (call.op \in {"local_minima", "local_maxmima"}
         /\ Len(Before.samples) = Len(Before.point_loc))
        => /\ ret.kind = "value"
           /\ \A i \in QualifyingIndices(call.op, Before.samples) :
                 \E k \in 1..Len(ret.val) :
                     /\ ret.val[k].i = i
                     /\ NumEq(ret.val[k].v, Before.samples[i + 1])
                     /\ ret.val[k].pt = Before.point_loc[i + 1]

\* the signal -s
Negated(s) == [s EXCEPT !.samples = [i \in 1..Len(s.samples) |-> PyInt(-s.samples[i].n)]]

\* what find_peaks gives for the negated receiver of the call
PeaksOfNegated == find_peaks(Negated(Before), call.a, call.b).ret

\* C12: find_valleys mirrors find_peaks: it returns (i, v) exactly where
\* find_peaks of the negated signal returns (i, -v), so a signal with a
\* clear dip has a valley.
C12_ValleysMirrorPeaks ==
    call.op = "find_valleys"
        => IF PeaksOfNegated.kind = "raise" THEN ret.kind = "raise"
           ELSE /\ ret.kind = "value"
                /\ Len(ret.val) = Len(PeaksOfNegated.val)
                /\ \A k \in 1..Len(ret.val) :
                      /\ ret.val[k][1] = PeaksOfNegated.val[k][1]
                      /\ ret.val[k][2].n = -PeaksOfNegated.val[k][2].n

\* the samples alternate between a low value and a high value, low first or
\* high first
IsAlternating(w, low, high) ==
    /\ low < high
    /\ Len(w) >= 2
    /\ w \in {Ints(Alternating(low, high, Len(w))), Ints(Alternating(high, low, Len(w)))}

\* the tuples (i, high) of the indices that hold high, in order
RECURSIVE HighTuples(_, _, _)
HighTuples(w, high, n) ==
    IF n = 0 THEN <<>>
    ELSE IF w[n].n = high
         THEN Append(HighTuples(w, high, n - 1), <<n - 1, PyInt(high)>>)
         ELSE HighTuples(w, high, n - 1)

\* a find_peaks call with window = 2 has returned for samples alternating
\* between low and high, high - low >= delta
AlternatingDone(low, high) ==
    /\ call.pc = "done"
    /\ call.a = 2
    /\ IsAlternating(self.samples, low, high)
    /\ high - low >= call.b

\* C11 as stated: find_peaks with window = 2 on samples alternating
\* between L and H, H - L >= delta, reports every index holding H; on
\* [1,5,1,5,1,5,1] with delta = 1 the peaks (1,5), (3,5), (5,5).
C11_AlternatingPeaksReported ==
    \A low \in PeakVals, high \in PeakVals :
        AlternatingDone(low, high)
            => (ret.kind = "value"
                /\ ret.val = HighTuples(self.samples, high, Len(self.samples)))

\* C11 amended: find_peaks with window = 2 on samples alternating between
\* L and H reports no peak; on [1,5,1,5,1,5,1] with delta = 1 it returns
\* the empty list.
C11_AlternatingNoPeaks ==
    \A low \in PeakVals, high \in PeakVals :
        AlternatingDone(low, high) => (ret.kind = "value" /\ ret.val = <<>>)

C11_Witness ==
    /\ call.pc = "done"
    /\ call.a = 2
    /\ call.b = 1
    /\ self.samples = Ints(<<1, 5, 1, 5, 1, 5, 1>>)
    /\ ret.kind = "value"
    /\ ret.val = <<>>

\* C13: at each pass i of find_peaks, after the running maximum is updated
\* with samples[i], the pass emits (running-max index, running-max value) and
\* resets the running maximum if and only if
\* running_max >= max(samples[max(0, i - window/2) : i + window/2]) + delta.
C13_EmitsAtMarginDelta ==
    (call.i > 0 /\ call.pc # "raised")
        => LET i == call.i - 1
               width == call.a \div 2
               hood == PySlice(self.samples, Max2(0, i - width), i + width)
           IN  /\ call.emitted <=> NumLe(FAdd(MaxOf(hood), PyInt(call.b)), call.running)
               /\ call.emitted
                      => /\ ret.val[Len(ret.val)] = <<call.running_pos, call.running>>
                         /\ call.maximum = NegInf

====
